---- MODULE Spec2Model ----
(***************************************************************************)
(* Usage accounting of the WhatsApp AI dashboard backend:                  *)
(* recordDailyUsage and getCurrentUsage (handlers/usage_statistics) over   *)
(* the tenants, messages, knowledge_base_documents, whatsapp_connections   *)
(* and usage_statistics tables.  Every await of a handler is one step, so  *)
(* calls interleave with each other and with writes of other handlers.     *)
(***************************************************************************)
EXTENDS Integers, FiniteSets, Sequences, Bags, TLC

(* ------------------------------ bounds --------------------------------- *)
\* Milliseconds in a calendar day, scaled down: instant 0 is 00:00:00.000 of
\* day 0 and instant DayMs - 1 is 23:59:59.999 of day 0.
DayMs == 2
\* Microseconds in a millisecond, scaled down: a timestamp column keeps
\* microseconds, a Date of the handlers whole milliseconds.
UsPerMs == 2
\* Days in a calendar month, scaled down.
MonthDays == 2
\* Months covered by the clock and by the timestamps of rows.
NumMonths == 2
\* Rows of the tenants, messages, documents and connections tables.
NumTenants == 2
MaxMsgs == 1
MaxDocs == 2
MaxConns == 2
\* recordDailyUsage calls begun in one behaviour, and in flight together.
MaxStarts == 2
NumCalls == 2
\* Rows of the usage table written directly, and the largest count in one.
MaxUsage == 3
MaxCount == 1

MonthMs == MonthDays * DayMs
\* The instants of the first month, and of all months.
MaxTimeOfMonth == MonthMs - 1
MaxTime == NumMonths * MonthMs - 1
TimesOfMonth == 0..MaxTimeOfMonth
Times == 0..MaxTime
\* The timestamps a column can hold in the first month, and in all months.
TimestampsOfMonth == 0..(MonthMs * UsPerMs - 1)
Timestamps == 0..(NumMonths * MonthMs * UsPerMs - 1)
TenantIds == 1..NumTenants
Calls == 1..NumCalls
Counts == 0..MaxCount

(* --------------------------- column domains ---------------------------- *)
Plans == {"free", "basic", "premium", "enterprise"}
Directions == {"inbound", "outbound"}
ConnectionStatuses == {"connected", "disconnected", "pending", "error"}
\* SQL NULL in the integer column file_size.
Null == -1
MB == 1024 * 1024
FileSizes == {1, MB, MB + 1}
\* "No row": the value of result[0] of an empty result, and of an unset local.
NoRow == [id |-> 0]

VARIABLES
  now,          \* wall clock (new Date(), defaultNow())
  tenants,      \* tenantsTable: sequence of plan values, the id is the index
  messages,     \* messagesTable: bag of [tenant_id, direction, is_bot_response, created_at],
                \* created_at a timestamp in microseconds
  documents,    \* knowledgeBaseDocumentsTable: bag of [tenant_id, is_processed, file_size, updated_at],
                \* updated_at a timestamp in microseconds
  connections,  \* whatsappConnectionsTable: sequence of [tenant_id, connection_status]
  usage,        \* usageStatisticsTable: set of rows
  nextUsageId,  \* serial of usageStatisticsTable.id
  rdu,          \* recordDailyUsage calls: position and locals of each
  gcu,          \* the getCurrentUsage call: position and locals
  started,      \* recordDailyUsage calls begun so far
  log,          \* history: the recordDailyUsage calls that returned, in order:
                \* [tenantId, date, id] of the argument and of the row returned
  settled,      \* history: the (tenant, day) pairs whose row was written by a call
                \* that saw the activity as it still is
  gus,          \* the getUsageStatistics call: input and results
  gur,          \* the generateUsageReport call: arguments and report
  inactive,     \* tenantsTable.is_active: the ids of the tenants that are not active
  tts,          \* the toggleTenantStatus call: position and arguments
  off           \* history: the tenants whose deactivation has completed, none of
                \* whose connections was set to connected since it disconnected them

store == <<tenants, messages, documents, connections>>
vars == <<now, tenants, messages, documents, connections, usage, nextUsageId, rdu, gcu, started, log, settled, gus, gur,
         inactive, tts, off>>

(* ------------------------------- dates --------------------------------- *)
\* new Date(date).setHours(0, 0, 0, 0)
normalizedDate_Kept(date) == date
normalizedDate(date) == date - (date % DayMs)
\* new Date(normalizedDate).setHours(23, 59, 59, 999)
endOfDay(nd) == nd + (DayMs - 1)
\* new Date(now.getFullYear(), now.getMonth(), 1)
startOfMonth(t) == t - (t % MonthMs)

\* A Date of a handler as the timestamp a query compares a column with.
Timestamp(date) == date * UsPerMs

(* ------------------------------ queries -------------------------------- *)
gte_Strict(a, b) == a > b
gte(a, b) == a >= b
lte_Strict(a, b) == a < b
lte(a, b) == a <= b

\* select count() from a bag of rows where P(row)
CountWhere(B, P(_)) ==
  LET sel == {k \in DOMAIN B : P(k)}
  IN  BagCardinality([k \in sel |-> B[k]])

TenantExists(t) == t \in 1..Len(tenants)

\* count() of outbound messages of the day
CountSent(t, nd) ==
  LET P(m) == /\ m.tenant_id = t
              /\ m.direction = "outbound"
              /\ gte(m.created_at, Timestamp(nd))
              /\ lte(m.created_at, Timestamp(endOfDay(nd)))
  IN  CountWhere(messages, P)

\* count() of inbound messages of the day
CountReceived(t, nd) ==
  LET P(m) == /\ m.tenant_id = t
              /\ m.direction = "inbound"
              /\ gte(m.created_at, Timestamp(nd))
              /\ lte(m.created_at, Timestamp(endOfDay(nd)))
  IN  CountWhere(messages, P)

\* count() of bot responses of the day
CountAiRequests(t, nd) ==
  LET P(m) == /\ m.tenant_id = t
              /\ m.is_bot_response
              /\ gte(m.created_at, Timestamp(nd))
              /\ lte(m.created_at, Timestamp(endOfDay(nd)))
  IN  CountWhere(messages, P)

\* count() of processed documents updated on the day
CountKbQueries(t, nd) ==
  LET P(d) == /\ d.tenant_id = t
              /\ d.is_processed
              /\ gte(d.updated_at, Timestamp(nd))
              /\ lte(d.updated_at, Timestamp(endOfDay(nd)))
  IN  CountWhere(documents, P)

CountActiveConnections_AnyStatus(t) ==
  Cardinality({i \in 1..Len(connections) : connections[i].tenant_id = t})
\* count() of the tenant's connections that are connected now
CountActiveConnections(t) ==
  Cardinality({i \in 1..Len(connections) :
                 /\ connections[i].tenant_id = t
                 /\ connections[i].connection_status = "connected"})

ExistingRecord_AnyDate(t, nd) == {r \in usage : r.tenant_id = t}
\* select from usage_statistics where tenant_id = t and date = nd
ExistingRecord(t, nd) == {r \in usage : r.tenant_id = t /\ r.date = nd}

(* ----------------------- other handlers' writes ------------------------ *)
\* The clock advances, up to the horizon max.
Tick(max) ==
  /\ now < max
  /\ now' = now + 1
  /\ UNCHANGED <<inactive, tts, off, gus, gur, tenants, messages, documents, connections, usage, nextUsageId, rdu, gcu, started, log, settled>>

\* History: a write to the activity tables reaches every call in flight (it no
\* longer ran against unchanging activity) and unsettles every usage row.
Disturbed ==
  /\ rdu' = [c \in DOMAIN rdu |-> [rdu[c] EXCEPT !.quiet = (rdu[c].pc = "idle")]]
  /\ gcu' = [gcu EXCEPT !.quiet = (gcu.pc = "idle"), !.prev = NoRow, !.last = NoRow]
  /\ settled' = {}

\* register: a new tenant on the free plan.
register ==
  /\ Len(tenants) < NumTenants
  /\ tenants' = Append(tenants, "free")
  /\ gcu' = [gcu EXCEPT !.quiet = (gcu.pc = "idle")]
  /\ UNCHANGED <<inactive, tts, off, gus, gur, now, messages, documents, connections, usage, nextUsageId, rdu, started, log, settled>>

\* update(tenantsTable).set({ plan }): the plan of an existing tenant changes.
SetTenantPlan(t, plan) ==
  /\ TenantExists(t)
  /\ tenants' = [tenants EXCEPT ![t] = plan]
  /\ gcu' = [gcu EXCEPT !.quiet = (gcu.pc = "idle")]
  /\ UNCHANGED <<inactive, tts, off, gus, gur, now, messages, documents, connections, usage, nextUsageId, rdu, started, log, settled>>

\* insert(messagesTable): a message row with a created_at of the writer's
\* choice, or the default now() of the column: any timestamp.
InsertMessage(t, dir, bot, at) ==
  /\ TenantExists(t)
  /\ Len(connections) > 0
  /\ BagCardinality(messages) < MaxMsgs
  /\ messages' = messages (+) SetToBag({[tenant_id |-> t, direction |-> dir,
                                         is_bot_response |-> bot, created_at |-> at]})
  /\ Disturbed
  /\ UNCHANGED <<inactive, tts, off, gus, gur, now, tenants, documents, connections, usage, nextUsageId, started, log>>

\* insert(knowledgeBaseDocumentsTable): a document row; file_size may be null.
InsertDocument(t, processed, size, at) ==
  /\ TenantExists(t)
  /\ BagCardinality(documents) < MaxDocs
  /\ documents' = documents (+) SetToBag({[tenant_id |-> t, is_processed |-> processed,
                                           file_size |-> size, updated_at |-> at]})
  /\ Disturbed
  /\ UNCHANGED <<inactive, tts, off, gus, gur, now, tenants, messages, connections, usage, nextUsageId, started, log>>

\* createWhatsappConnection: a pending connection of an existing tenant.
createWhatsappConnection(t) ==
  /\ TenantExists(t)
  /\ Len(connections) < MaxConns
  /\ connections' = Append(connections, [tenant_id |-> t, connection_status |-> "pending"])
  /\ Disturbed
  /\ UNCHANGED <<inactive, tts, off, gus, gur, now, tenants, messages, documents, usage, nextUsageId, started, log>>

\* updateWhatsappConnection: the status of an existing connection is set.
\* History: setting it to connected ends what followed from a deactivation
\* of its tenant.
updateWhatsappConnection(i, status) ==
  /\ i \in 1..Len(connections)
  /\ connections' = [connections EXCEPT ![i].connection_status = status]
  /\ LET t == connections[i].tenant_id
         again == status = "connected"
     IN  /\ rdu' = [c \in DOMAIN rdu |->
                     [rdu[c] EXCEPT !.quiet = (rdu[c].pc = "idle"),
                                    !.afterOff = @ /\ ~(again /\ rdu[c].tenantId = t)]]
         /\ off' = IF again THEN off \ {t} ELSE off
         /\ tts' = IF again /\ tts.tenantId = t THEN [tts EXCEPT !.reconnected = TRUE] ELSE tts
  /\ gcu' = [gcu EXCEPT !.quiet = (gcu.pc = "idle"), !.prev = NoRow, !.last = NoRow]
  /\ settled' = {}
  /\ UNCHANGED <<inactive, gus, gur, now, tenants, messages, documents, usage, nextUsageId, started, log>>

\* references(() => tenantsTable.id)
ForeignKeyViolation(t) == ~TenantExists(t)
UniqueViolation_Off(t, nd) == FALSE
\* unique().on(table.tenant_id, table.date)
UniqueViolation(t, nd) == ExistingRecord(t, nd) # {}

\* insert(usageStatisticsTable): the tests seed a row into the empty table
\* (messages_sent 10, messages_received 5, ai_requests 3,
\* knowledge_base_queries 2, active_connections 1).
SeedUsage(t, nd) ==
  /\ usage = {}
  /\ ~ForeignKeyViolation(t)
  /\ ~UniqueViolation(t, nd)
  /\ usage' = usage \cup {[id |-> nextUsageId, tenant_id |-> t, date |-> nd,
                           messages_sent |-> 10, messages_received |-> 5,
                           ai_requests |-> 3, knowledge_base_queries |-> 2,
                           active_connections |-> 1, created_at |-> now]}
  /\ nextUsageId' = nextUsageId + 1
  /\ UNCHANGED <<inactive, tts, off, gus, gur, now, tenants, messages, documents, connections, rdu, gcu, started, log, settled>>

\* insert(usageStatisticsTable).values({ tenant_id, date, messages_sent, ... }):
\* a usage row written directly, with any date and counts.
InsertUsage(t, date, sent, received, ai) ==
  /\ Cardinality(usage) < MaxUsage
  /\ ~ForeignKeyViolation(t)
  /\ ~UniqueViolation(t, date)
  /\ usage' = usage \cup {[id |-> nextUsageId, tenant_id |-> t, date |-> date,
                           messages_sent |-> sent, messages_received |-> received,
                           ai_requests |-> ai, knowledge_base_queries |-> 0,
                           active_connections |-> 0, created_at |-> now]}
  /\ nextUsageId' = nextUsageId + 1
  /\ UNCHANGED <<inactive, tts, off, gus, gur, now, tenants, messages, documents, connections, rdu, gcu, started, log, settled>>

(* --------------------------- recordDailyUsage -------------------------- *)
IdleRdu ==
  [pc |-> "idle", tenantId |-> 0, date |-> 0, normalizedDate |-> 0,
   messagesSent |-> 0, messagesReceived |-> 0, aiRequestCount |-> 0,
   kbQueryCount |-> 0, activeConnectionCount |-> 0, existingRecord |-> 0,
   result |-> NoRow,
   \* history: no activity write since the call began; the row the update found;
   \* the call repeated a settled call; the call began after the deactivation
   \* of its tenant and no connection of the tenant was set to connected since;
   \* the call began after a call for the same tenant and day had failed
   quiet |-> TRUE, before |-> NoRow, again |-> FALSE, afterOff |-> FALSE, retry |-> FALSE]

\* The call begins: the day of the argument is normalised.
recordDailyUsage(c, tenantId, date) ==
  /\ rdu[c].pc = "idle"
  /\ started < MaxStarts
  /\ started' = started + 1
  /\ rdu' = [rdu EXCEPT ![c] = [IdleRdu EXCEPT !.pc = "sentMessages",
                                               !.tenantId = tenantId,
                                               !.date = date,
                                               !.normalizedDate = normalizedDate(date),
                                               !.afterOff = (tenantId \in off),
                                               !.retry =
                                                 \E o \in Calls \ {c} :
                                                   /\ rdu[o].pc = "thrown"
                                                   /\ rdu[o].tenantId = tenantId
                                                   /\ rdu[o].normalizedDate = normalizedDate(date)]]
  /\ UNCHANGED <<inactive, tts, off, gus, gur, now, tenants, messages, documents, connections, usage, nextUsageId, gcu, log, settled>>

rduSentMessages(c) ==
  /\ rdu[c].pc = "sentMessages"
  /\ rdu' = [rdu EXCEPT ![c].messagesSent = CountSent(rdu[c].tenantId, rdu[c].normalizedDate),
                        ![c].pc = "receivedMessages"]
  /\ UNCHANGED <<inactive, tts, off, gus, gur, now, tenants, messages, documents, connections, usage, nextUsageId, gcu, started, log, settled>>

rduReceivedMessages(c) ==
  /\ rdu[c].pc = "receivedMessages"
  /\ rdu' = [rdu EXCEPT ![c].messagesReceived = CountReceived(rdu[c].tenantId, rdu[c].normalizedDate),
                        ![c].pc = "aiRequests"]
  /\ UNCHANGED <<inactive, tts, off, gus, gur, now, tenants, messages, documents, connections, usage, nextUsageId, gcu, started, log, settled>>

rduAiRequests(c) ==
  /\ rdu[c].pc = "aiRequests"
  /\ rdu' = [rdu EXCEPT ![c].aiRequestCount = CountAiRequests(rdu[c].tenantId, rdu[c].normalizedDate),
                        ![c].pc = "kbQueries"]
  /\ UNCHANGED <<inactive, tts, off, gus, gur, now, tenants, messages, documents, connections, usage, nextUsageId, gcu, started, log, settled>>

rduKbQueries(c) ==
  /\ rdu[c].pc = "kbQueries"
  /\ rdu' = [rdu EXCEPT ![c].kbQueryCount = CountKbQueries(rdu[c].tenantId, rdu[c].normalizedDate),
                        ![c].pc = "activeConnections"]
  /\ UNCHANGED <<inactive, tts, off, gus, gur, now, tenants, messages, documents, connections, usage, nextUsageId, gcu, started, log, settled>>

rduActiveConnections(c) ==
  /\ rdu[c].pc = "activeConnections"
  /\ rdu' = [rdu EXCEPT ![c].activeConnectionCount = CountActiveConnections(rdu[c].tenantId),
                        ![c].pc = "existingRecord"]
  /\ UNCHANGED <<inactive, tts, off, gus, gur, now, tenants, messages, documents, connections, usage, nextUsageId, gcu, started, log, settled>>

\* The existence check: existingRecord.length
rduExistingRecord(c) ==
  /\ rdu[c].pc = "existingRecord"
  /\ rdu' = [rdu EXCEPT ![c].existingRecord =
                          Cardinality(ExistingRecord(rdu[c].tenantId, rdu[c].normalizedDate)),
                        ![c].pc = "write"]
  /\ UNCHANGED <<inactive, tts, off, gus, gur, now, tenants, messages, documents, connections, usage, nextUsageId, gcu, started, log, settled>>

UpdatedRow_Increment(r, l) ==
  [r EXCEPT !.messages_sent = @ + l.messagesSent,
            !.messages_received = @ + l.messagesReceived,
            !.ai_requests = @ + l.aiRequestCount,
            !.knowledge_base_queries = @ + l.kbQueryCount,
            !.active_connections = @ + l.activeConnectionCount]
\* update ... set({ messages_sent: messagesSent, ... })
UpdatedRow(r, l) ==
  [r EXCEPT !.messages_sent = l.messagesSent,
            !.messages_received = l.messagesReceived,
            !.ai_requests = l.aiRequestCount,
            !.knowledge_base_queries = l.kbQueryCount,
            !.active_connections = l.activeConnectionCount]

\* insert ... values({ tenant_id, date: normalizedDate, ... }); id and created_at default
InsertedRow(l) ==
  [id |-> nextUsageId, tenant_id |-> l.tenantId, date |-> l.normalizedDate,
   messages_sent |-> l.messagesSent, messages_received |-> l.messagesReceived,
   ai_requests |-> l.aiRequestCount, knowledge_base_queries |-> l.kbQueryCount,
   active_connections |-> l.activeConnectionCount, created_at |-> now]

\* History kept at a write of call c to the row of (t, nd).
Wrote(c, t, nd, res, rows) ==
  LET l == rdu[c]
      again == l.quiet /\ <<t, nd>> \in settled /\ rows # {}
  IN  /\ rdu' = [rdu EXCEPT ![c].pc = "returned",
                            ![c].result = res,
                            ![c].before = IF rows = {} THEN NoRow ELSE CHOOSE r \in rows : TRUE,
                            ![c].again = again]
      /\ settled' = IF l.quiet THEN settled \cup {<<t, nd>>} ELSE settled \ {<<t, nd>>}
      /\ log' = Append(log, [tenantId |-> t, date |-> l.date, id |-> res.id])

\* if (existingRecord.length > 0) update ... returning()
rduUpdate(c) ==
  LET l == rdu[c]
      rows == ExistingRecord(l.tenantId, l.normalizedDate)
      updated == {UpdatedRow(r, l) : r \in rows}
  IN  /\ l.pc = "write"
      /\ l.existingRecord > 0
      /\ usage' = (usage \ rows) \cup updated
      /\ Wrote(c, l.tenantId, l.normalizedDate,
               IF updated = {} THEN NoRow ELSE CHOOSE r \in updated : TRUE, rows)
      /\ UNCHANGED <<inactive, tts, off, gus, gur, now, tenants, messages, documents, connections, nextUsageId, gcu, started>>

\* else insert ... returning(); a violated constraint rejects the insert
rduInsert(c) ==
  LET l == rdu[c]
  IN  /\ l.pc = "write"
      /\ ~(l.existingRecord > 0)
      /\ ~ForeignKeyViolation(l.tenantId)
      /\ ~UniqueViolation(l.tenantId, l.normalizedDate)
      /\ usage' = usage \cup {InsertedRow(l)}
      /\ nextUsageId' = nextUsageId + 1
      /\ Wrote(c, l.tenantId, l.normalizedDate, InsertedRow(l), {})
      /\ UNCHANGED <<inactive, tts, off, gus, gur, now, tenants, messages, documents, connections, gcu, started>>

\* The insert is rejected; catch (error) { console.error(...); throw error; }
\* The rejected row had taken its id: a value of a serial is not given back.
rduInsertThrows(c) ==
  LET l == rdu[c]
  IN  /\ l.pc = "write"
      /\ ~(l.existingRecord > 0)
      /\ ForeignKeyViolation(l.tenantId) \/ UniqueViolation(l.tenantId, l.normalizedDate)
      /\ rdu' = [rdu EXCEPT ![c].pc = "thrown"]
      /\ nextUsageId' = nextUsageId + 1
      /\ UNCHANGED <<inactive, tts, off, gus, gur, now, tenants, messages, documents, connections, usage, gcu, started, log, settled>>

rduThrows_Partial(c) ==
  LET l == rdu[c]
      rows == ExistingRecord(l.tenantId, l.normalizedDate)
  IN  /\ l.pc \in {"sentMessages", "receivedMessages", "aiRequests", "kbQueries",
                   "activeConnections", "existingRecord", "write"}
      /\ rdu' = [rdu EXCEPT ![c].pc = "thrown"]
      /\ usage' = IF l.pc = "write" /\ l.existingRecord > 0
                  THEN (usage \ rows) \cup {[r EXCEPT !.messages_sent = l.messagesSent] : r \in rows}
                  ELSE usage
      /\ \/ UNCHANGED nextUsageId
         \/ l.pc = "write" /\ ~(l.existingRecord > 0) /\ nextUsageId' = nextUsageId + 1
      /\ UNCHANGED <<inactive, tts, off, gus, gur, now, tenants, messages, documents, connections, gcu, started, log, settled>>
\* A statement is rejected (the database fails) at any of the awaits: nothing of
\* it is written, catch (error) { console.error(...); throw error; }.  A
\* rejected insert may have taken its id from the serial.
rduThrows(c) ==
  LET l == rdu[c]
  IN  /\ l.pc \in {"sentMessages", "receivedMessages", "aiRequests", "kbQueries",
                   "activeConnections", "existingRecord", "write"}
      /\ rdu' = [rdu EXCEPT ![c].pc = "thrown"]
      /\ \/ UNCHANGED nextUsageId
         \/ l.pc = "write" /\ ~(l.existingRecord > 0) /\ nextUsageId' = nextUsageId + 1
      /\ UNCHANGED <<inactive, tts, off, gus, gur, now, tenants, messages, documents, connections, usage, gcu, started, log, settled>>

\* The caller has the record, or the error; the call is over.
rduDone(c) ==
  /\ rdu[c].pc \in {"returned", "thrown"}
  /\ rdu' = [rdu EXCEPT ![c] = IdleRdu]
  /\ UNCHANGED <<inactive, tts, off, gus, gur, now, tenants, messages, documents, connections, usage, nextUsageId, gcu, started, log, settled>>

(* --------------------------- getCurrentUsage --------------------------- *)
IdleGcu ==
  [pc |-> "idle", tenantId |-> 0, now |-> 0, startOfToday |-> 0, startOfMonth |-> 0,
   tenant |-> <<>>, messagesToday |-> 0, messagesThisMonth |-> 0,
   aiRequestsToday |-> 0, aiRequestsThisMonth |-> 0, result |-> NoRow,
   \* history: no write to the tables read since the call began; the snapshot of
   \* the previous call of this tenant at this instant, with no activity write
   \* since, and the usage table as that call left it; the last call that returned
   quiet |-> TRUE, prev |-> NoRow, prevUsage |-> {}, last |-> NoRow]

\* new Date(now).setHours(0, 0, 0, 0)
startOfToday(t) == t - (t % DayMs)

\* const planLimits = { free: {...}, basic: {...}, premium: {...}, enterprise: {...} }
planLimits ==
  [free |-> [max_messages_per_month |-> 100, max_ai_requests_per_month |-> 50,
             max_storage_mb |-> 10],
   basic |-> [max_messages_per_month |-> 1000, max_ai_requests_per_month |-> 500,
              max_storage_mb |-> 100],
   premium |-> [max_messages_per_month |-> 10000, max_ai_requests_per_month |-> 5000,
                max_storage_mb |-> 1000],
   enterprise |-> [max_messages_per_month |-> 100000, max_ai_requests_per_month |-> 50000,
                   max_storage_mb |-> 10000]]

tenantPlan_Free(rows) == "free"
\* tenant[0]?.plan || 'free'
tenantPlan(rows) == IF rows = <<>> THEN "free" ELSE rows[1]

RECURSIVE SumRecorded(_)
SumRecorded(S) ==
  IF S = {} THEN 0
  ELSE LET r == CHOOSE x \in S : TRUE
       IN  r.messages_sent + r.messages_received + SumRecorded(S \ {r})

CountMessagesSince_FromUsage(t, start) ==
  SumRecorded({r \in usage : r.tenant_id = t /\ gte(r.date, start)})
\* count() of the tenant's messages created at or after start
CountMessagesSince(t, start) ==
  LET P(m) == m.tenant_id = t /\ gte(m.created_at, Timestamp(start))
  IN  CountWhere(messages, P)

CountAiRequestsSince_AnyTenant(t, start) ==
  LET P(m) == m.is_bot_response /\ gte(m.created_at, Timestamp(start))
  IN  CountWhere(messages, P)
\* count() of the tenant's bot responses created at or after start
CountAiRequestsSince(t, start) ==
  LET P(m) == m.tenant_id = t /\ m.is_bot_response /\ gte(m.created_at, Timestamp(start))
  IN  CountWhere(messages, P)

RECURSIVE SumOver(_, _)
SumOver(B, S) ==
  IF S = {} THEN 0
  ELSE LET k == CHOOSE x \in S : TRUE
       IN  B[k] * k.file_size + SumOver(B, S \ {k})

\* Number(sum(file_size) || 0) over the tenant's documents; sum skips NULL
totalSizeBytes(t) ==
  SumOver(documents, {k \in DOMAIN documents : k.tenant_id = t /\ k.file_size # Null})

storageUsedMb_Floor(bytes) == bytes \div MB
\* Math.ceil(totalSizeBytes / (1024 * 1024))
storageUsedMb(bytes) == (bytes \div MB) + (IF bytes % MB = 0 THEN 0 ELSE 1)

\* The call begins: now, the start of today and of the month are fixed.
getCurrentUsage(tenantId) ==
  /\ gcu.pc = "idle"
  /\ gcu' = [IdleGcu EXCEPT !.pc = "tenant",
                            !.tenantId = tenantId,
                            !.now = now,
                            !.startOfToday = startOfToday(now),
                            !.startOfMonth = startOfMonth(now),
                            !.prev = IF gcu.last # NoRow /\ gcu.last.tenantId = tenantId
                                        /\ gcu.last.now = now
                                     THEN gcu.last.result ELSE NoRow,
                            !.prevUsage = IF gcu.last # NoRow THEN gcu.last.usage ELSE {}]
  /\ UNCHANGED <<inactive, tts, off, gus, gur, now, tenants, messages, documents, connections, usage, nextUsageId, rdu, started, log, settled>>

gcuTenant_Creating ==
  /\ gcu.pc = "tenant"
  /\ tenants' = IF TenantExists(gcu.tenantId) THEN tenants ELSE Append(tenants, "free")
  /\ gcu' = [gcu EXCEPT !.tenant = <<tenants'[Len(tenants')]>>, !.pc = "messagesToday"]
  /\ UNCHANGED <<inactive, tts, off, gus, gur, now, messages, documents, connections, usage, nextUsageId, rdu, started, log, settled>>
\* select from tenants where id = tenantId
gcuTenant ==
  /\ gcu.pc = "tenant"
  /\ gcu' = [gcu EXCEPT !.tenant = IF TenantExists(gcu.tenantId)
                                   THEN <<tenants[gcu.tenantId]>> ELSE <<>>,
                        !.pc = "messagesToday"]
  /\ UNCHANGED <<inactive, tts, off, gus, gur, now, tenants, messages, documents, connections, usage, nextUsageId, rdu, started, log, settled>>

gcuMessagesToday ==
  /\ gcu.pc = "messagesToday"
  /\ gcu' = [gcu EXCEPT !.messagesToday = CountMessagesSince(gcu.tenantId, gcu.startOfToday),
                        !.pc = "messagesThisMonth"]
  /\ UNCHANGED <<inactive, tts, off, gus, gur, now, tenants, messages, documents, connections, usage, nextUsageId, rdu, started, log, settled>>

gcuMessagesThisMonth ==
  /\ gcu.pc = "messagesThisMonth"
  /\ gcu' = [gcu EXCEPT !.messagesThisMonth = CountMessagesSince(gcu.tenantId, gcu.startOfMonth),
                        !.pc = "aiRequestsToday"]
  /\ UNCHANGED <<inactive, tts, off, gus, gur, now, tenants, messages, documents, connections, usage, nextUsageId, rdu, started, log, settled>>

gcuAiRequestsToday ==
  /\ gcu.pc = "aiRequestsToday"
  /\ gcu' = [gcu EXCEPT !.aiRequestsToday = CountAiRequestsSince(gcu.tenantId, gcu.startOfToday),
                        !.pc = "aiRequestsThisMonth"]
  /\ UNCHANGED <<inactive, tts, off, gus, gur, now, tenants, messages, documents, connections, usage, nextUsageId, rdu, started, log, settled>>

gcuAiRequestsThisMonth ==
  /\ gcu.pc = "aiRequestsThisMonth"
  /\ gcu' = [gcu EXCEPT !.aiRequestsThisMonth = CountAiRequestsSince(gcu.tenantId, gcu.startOfMonth),
                        !.pc = "storageUsed"]
  /\ UNCHANGED <<inactive, tts, off, gus, gur, now, tenants, messages, documents, connections, usage, nextUsageId, rdu, started, log, settled>>

\* The storage query, and the snapshot returned.
gcuStorageUsed ==
  /\ gcu.pc = "storageUsed"
  /\ gcu' = [gcu EXCEPT !.result =
                          [messages_today |-> gcu.messagesToday,
                           messages_this_month |-> gcu.messagesThisMonth,
                           ai_requests_today |-> gcu.aiRequestsToday,
                           ai_requests_this_month |-> gcu.aiRequestsThisMonth,
                           storage_used_mb |-> storageUsedMb(totalSizeBytes(gcu.tenantId)),
                           plan_limits |-> planLimits[tenantPlan(gcu.tenant)]],
                        !.pc = "returned"]
  /\ UNCHANGED <<inactive, tts, off, gus, gur, now, tenants, messages, documents, connections, usage, nextUsageId, rdu, started, log, settled>>

\* A query is rejected (the database fails):
\* catch (error) { console.error('Failed to get current usage:', error); throw error; }
gcuThrows ==
  /\ gcu.pc \in {"tenant", "messagesToday", "messagesThisMonth", "aiRequestsToday",
                 "aiRequestsThisMonth", "storageUsed"}
  /\ gcu' = [gcu EXCEPT !.pc = "thrown"]
  /\ UNCHANGED <<inactive, tts, off, gus, gur, now, tenants, messages, documents, connections, usage, nextUsageId, rdu, started, log, settled>>

\* The caller has the snapshot, or the error; the call is over.
gcuDone ==
  /\ gcu.pc \in {"returned", "thrown"}
  /\ gcu' = [IdleGcu EXCEPT !.last = IF gcu.quiet /\ gcu.pc = "returned"
                                      THEN [tenantId |-> gcu.tenantId, now |-> gcu.now,
                                            result |-> gcu.result, usage |-> usage]
                                      ELSE NoRow]
  /\ UNCHANGED <<inactive, tts, off, gus, gur, now, tenants, messages, documents, connections, usage, nextUsageId, rdu, started, log, settled>>

(* -------------------------- getUsageStatistics ------------------------- *)
RECURSIVE orderByAscDate_ById(_)
orderByAscDate_ById(S) ==
  IF S = {} THEN <<>>
  ELSE LET first == CHOOSE r \in S : \A q \in S : r.id <= q.id
       IN  <<first>> \o orderByAscDate_ById(S \ {first})
\* orderBy(asc(usageStatisticsTable.date)): the rows of S by ascending date
RECURSIVE orderByAscDate(_)
orderByAscDate(S) ==
  IF S = {} THEN <<>>
  ELSE LET first == CHOOSE r \in S : \A q \in S : r.date <= q.date
       IN  <<first>> \o orderByAscDate(S \ {first})

IdleGus == [pc |-> "idle", tenant_id |-> 0, start_date |-> Null, end_date |-> Null,
            results |-> <<>>]

conditions_OfTheDay(r, input) ==
  /\ r.tenant_id = input.tenant_id
  /\ input.start_date # Null => gte(r.date, normalizedDate(input.start_date))
  /\ input.end_date # Null => lte(r.date, endOfDay(normalizedDate(input.end_date)))
conditions_AnyTenant(r, input) ==
  /\ input.start_date # Null => gte(r.date, input.start_date)
  /\ input.end_date # Null => lte(r.date, input.end_date)
\* conditions: eq(tenant_id), gte(date, start_date) and lte(date, end_date) if given
conditions(r, input) ==
  /\ r.tenant_id = input.tenant_id
  /\ input.start_date # Null => gte(r.date, input.start_date)
  /\ input.end_date # Null => lte(r.date, input.end_date)

\* select().from(usageStatisticsTable).where(and(...conditions)).orderBy(asc(date))
getUsageStatistics(input) ==
  /\ gus.pc = "idle"
  /\ gus' = [pc |-> "returned", tenant_id |-> input.tenant_id,
             start_date |-> input.start_date, end_date |-> input.end_date,
             results |-> orderByAscDate({r \in usage : conditions(r, input)})]
  /\ UNCHANGED <<inactive, tts, off, gur, now, tenants, messages, documents, connections, usage, nextUsageId, rdu, gcu, started, log, settled>>

\* The query is rejected: catch (error) { console.error(...); throw error; }
gusThrows(input) ==
  /\ gus.pc = "idle"
  /\ gus' = [IdleGus EXCEPT !.pc = "thrown", !.tenant_id = input.tenant_id,
                            !.start_date = input.start_date, !.end_date = input.end_date]
  /\ UNCHANGED <<inactive, tts, off, gur, now, tenants, messages, documents, connections, usage, nextUsageId, rdu, gcu, started, log, settled>>

\* The caller has the results, or the error; the call is over.
gusDone ==
  /\ gus.pc \in {"returned", "thrown"}
  /\ gus' = IdleGus
  /\ UNCHANGED <<inactive, tts, off, gur, now, tenants, messages, documents, connections, usage, nextUsageId, rdu, gcu, started, log, settled>>

(* -------------------------- generateUsageReport ------------------------ *)
\* Math.round of NaN (0 / 0)
NaN == -2

IdleGur == [pc |-> "idle", tenantId |-> 0, startDate |-> 0, endDate |-> 0, result |-> NoRow]

\* select ... where tenant_id = tenantId and date >= startDate and date <= endDate
\* order by date asc
usageStats(tenantId, startDate, endDate) ==
  orderByAscDate({r \in usage : /\ r.tenant_id = tenantId
                                /\ gte(r.date, startDate)
                                /\ lte(r.date, endDate)})

dayMessages_SentOnly(stat) == stat.messages_sent
\* stat.messages_sent + stat.messages_received
dayMessages(stat) == stat.messages_sent + stat.messages_received

\* totalMessages after the first n records
RECURSIVE totalMessages(_, _)
totalMessages(stats, n) ==
  IF n = 0 THEN 0 ELSE totalMessages(stats, n - 1) + dayMessages(stats[n])

\* totalAiRequests after the first n records
RECURSIVE totalAiRequests(_, _)
totalAiRequests(stats, n) ==
  IF n = 0 THEN 0 ELSE totalAiRequests(stats, n - 1) + stats[n].ai_requests

\* if (dayMessages > peakDayMessages)
isNewPeak(dm, peakDayMessages) == dm > peakDayMessages

\* peakDay and peakDayMessages after the first n records
RECURSIVE peak(_, _)
peak(stats, n) ==
  IF n = 0 THEN [peakDay |-> Null, peakDayMessages |-> 0]
  ELSE LET p == peak(stats, n - 1)
           dm == dayMessages(stats[n])
       IN  IF isNewPeak(dm, p.peakDayMessages)
           THEN [peakDay |-> stats[n].date, peakDayMessages |-> dm]
           ELSE p

\* the entry of a record in daily_breakdown
dailyBreakdown(stats) ==
  [i \in 1..Len(stats) |->
     [date |-> stats[i].date, messages_sent |-> stats[i].messages_sent,
      messages_received |-> stats[i].messages_received,
      ai_requests |-> stats[i].ai_requests]]

dayCount_Raw(length) == length
\* usageStats.length || 1
dayCount(length) == IF length = 0 THEN 1 ELSE length

avgDailyMessages_Floor(total, days) == IF days = 0 THEN NaN ELSE total \div days
\* Math.round(totalMessages / dayCount): the nearest integer, a half upwards
avgDailyMessages(total, days) ==
  IF days = 0 THEN NaN ELSE (2 * total + days) \div (2 * days)

\* The select, the pass over the records, and the report returned.
generateUsageReport(tenantId, startDate, endDate) ==
  LET stats == usageStats(tenantId, startDate, endDate)
      n == Len(stats)
      pk == peak(stats, n)
  IN  /\ gur.pc = "idle"
      /\ gur' = [pc |-> "returned", tenantId |-> tenantId,
                 startDate |-> startDate, endDate |-> endDate,
                 result |->
                   [summary |->
                      [total_messages |-> totalMessages(stats, n),
                       total_ai_requests |-> totalAiRequests(stats, n),
                       avg_daily_messages |->
                         avgDailyMessages(totalMessages(stats, n), dayCount(n)),
                       peak_day |-> pk.peakDay,
                       peak_day_messages |-> pk.peakDayMessages],
                    daily_breakdown |-> dailyBreakdown(stats)]]
      /\ UNCHANGED <<inactive, tts, off, gus, now, tenants, messages, documents, connections, usage, nextUsageId, rdu, gcu, started, log, settled>>

\* The query is rejected: catch (error) { console.error(...); throw error; }
gurThrows(tenantId, startDate, endDate) ==
  /\ gur.pc = "idle"
  /\ gur' = [IdleGur EXCEPT !.pc = "thrown", !.tenantId = tenantId,
                            !.startDate = startDate, !.endDate = endDate]
  /\ UNCHANGED <<inactive, tts, off, gus, now, tenants, messages, documents, connections, usage, nextUsageId, rdu, gcu, started, log, settled>>

\* The caller has the report, or the error; the call is over.
gurDone ==
  /\ gur.pc \in {"returned", "thrown"}
  /\ gur' = IdleGur
  /\ UNCHANGED <<inactive, tts, off, gus, now, tenants, messages, documents, connections, usage, nextUsageId, rdu, gcu, started, log, settled>>

(* -------------------------- toggleTenantStatus ------------------------- *)
IdleTts == [pc |-> "idle", tenantId |-> 0, isActive |-> TRUE,
            \* history: a connection of the tenant was set to connected since the
            \* call disconnected them
            reconnected |-> FALSE]

\* toggleTenantStatus(tenantId, isActive): the call begins and reaches its
\* first statement, which for a deactivation is the update of the connections.
toggleTenantStatus(tenantId, isActive) ==
  /\ tts.pc = "idle"
  /\ tts' = [IdleTts EXCEPT !.pc = IF isActive THEN "tenant" ELSE "connections",
                            !.tenantId = tenantId,
                            !.isActive = isActive]
  /\ UNCHANGED <<inactive, off, gus, gur, now, tenants, messages, documents, connections, usage, nextUsageId, rdu, gcu, started, log, settled>>

disconnectAll_ById(conns, tenantId) ==
  [i \in DOMAIN conns |-> IF i = tenantId
                           THEN [conns[i] EXCEPT !.connection_status = "disconnected"]
                           ELSE conns[i]]
\* update(whatsappConnectionsTable).set({ connection_status: 'disconnected' })
\*   .where(eq(whatsappConnectionsTable.tenant_id, tenantId))
disconnectAll(conns, tenantId) ==
  [i \in DOMAIN conns |-> IF conns[i].tenant_id = tenantId
                           THEN [conns[i] EXCEPT !.connection_status = "disconnected"]
                           ELSE conns[i]]

\* if (!isActive) { await db.update(whatsappConnectionsTable)... }
ttsConnections ==
  /\ tts.pc = "connections"
  /\ connections' = disconnectAll(connections, tts.tenantId)
  /\ tts' = [tts EXCEPT !.pc = "tenant", !.reconnected = FALSE]
  /\ Disturbed
  /\ UNCHANGED <<inactive, off, gus, gur, now, tenants, messages, documents, usage, nextUsageId, started, log>>

\* const results = await db.update(tenantsTable).set({ is_active: isActive })...;
\* if (results.length === 0) throw new Error(`Tenant with ID ... not found`);
\* return results[0];
ttsTenant ==
  /\ tts.pc = "tenant"
  /\ IF TenantExists(tts.tenantId)
     THEN /\ inactive' = IF tts.isActive THEN inactive \ {tts.tenantId}
                                         ELSE inactive \cup {tts.tenantId}
          /\ off' = IF ~tts.isActive /\ ~tts.reconnected THEN off \cup {tts.tenantId} ELSE off
          /\ tts' = [tts EXCEPT !.pc = "returned"]
     ELSE /\ tts' = [tts EXCEPT !.pc = "thrown"]
          /\ UNCHANGED <<inactive, off>>
  /\ UNCHANGED <<gus, gur, now, tenants, messages, documents, connections, usage, nextUsageId, rdu, gcu, started, log, settled>>

\* The caller has the tenant or the error.
ttsDone ==
  /\ tts.pc \in {"returned", "thrown"}
  /\ tts' = IdleTts
  /\ UNCHANGED <<inactive, off, gus, gur, now, tenants, messages, documents, connections, usage, nextUsageId, rdu, gcu, started, log, settled>>

(* --------------------------- specifications ---------------------------- *)
\* The store as the tests set it up: one tenant on the basic plan with one
\* connected WhatsApp connection, no messages, documents or usage rows.
Init ==
  /\ now = 0
  /\ tenants = <<"basic">>
  /\ messages = EmptyBag
  /\ documents = EmptyBag
  /\ connections = <<[tenant_id |-> 1, connection_status |-> "connected"]>>
  /\ usage = {}
  /\ nextUsageId = 1
  /\ rdu = [c \in Calls |-> IdleRdu]
  /\ gcu = IdleGcu
  /\ started = 0
  /\ log = <<>>
  /\ settled = {}
  /\ gus = IdleGus
  /\ gur = IdleGur
  /\ inactive = {}
  /\ tts = IdleTts
  /\ off = {}

rduStep(c) ==
  \/ rduSentMessages(c)
  \/ rduReceivedMessages(c)
  \/ rduAiRequests(c)
  \/ rduKbQueries(c)
  \/ rduActiveConnections(c)
  \/ rduExistingRecord(c)
  \/ rduUpdate(c)
  \/ rduInsert(c)
  \/ rduInsertThrows(c)
  \/ rduDone(c)

\* One recordDailyUsage call, over a seeded row and changing messages and
\* documents of the first month.
NextCount ==
  \/ register
  \/ \E t \in TenantIds, d \in TimesOfMonth : SeedUsage(t, normalizedDate(d))
  \/ \E t \in TenantIds, dir \in Directions, bot \in BOOLEAN, at \in TimestampsOfMonth :
       InsertMessage(t, dir, bot, at)
  \/ \E t \in TenantIds, processed \in BOOLEAN, at \in TimesOfMonth :
       documents = EmptyBag /\ InsertDocument(t, processed, Null, Timestamp(at))
  \/ \E t \in TenantIds, d \in TimesOfMonth : started = 0 /\ recordDailyUsage(1, t, d)
  \/ rduStep(1)

SpecCount == Init /\ [][NextCount]_vars

\* One recordDailyUsage call after another, over seeded rows, a moving clock
\* and new outbound messages.
NextUpsert ==
  \/ Tick(MaxTimeOfMonth)
  \/ register
  \/ \E t \in TenantIds, at \in TimesOfMonth : InsertMessage(t, "outbound", FALSE, Timestamp(at))
  \/ \E t \in TenantIds, d \in TimesOfMonth : SeedUsage(t, normalizedDate(d))
  \/ \E t \in TenantIds, d \in TimesOfMonth : recordDailyUsage(1, t, d)
  \/ rduStep(1)

SpecUpsert == Init /\ [][NextUpsert]_vars

\* Overlapping recordDailyUsage calls, over seeded rows and new outbound messages.
NextRdu ==
  \/ register
  \/ \E at \in TimesOfMonth : InsertMessage(1, "outbound", FALSE, Timestamp(at))
  \/ \E t \in TenantIds, d \in TimesOfMonth : SeedUsage(t, normalizedDate(d))
  \/ \E c \in Calls, t \in TenantIds, d \in TimesOfMonth : recordDailyUsage(c, t, d)
  \/ \E c \in Calls : rduStep(c)

SpecRdu == Init /\ [][NextRdu]_vars

gcuStep ==
  \/ gcuTenant
  \/ gcuMessagesToday
  \/ gcuMessagesThisMonth
  \/ gcuAiRequestsToday
  \/ gcuAiRequestsThisMonth
  \/ gcuStorageUsed
  \/ gcuDone

\* getCurrentUsage over a moving clock and new messages of all months.
NextGcu ==
  \/ Tick(MaxTime)
  \/ register
  \/ \E t \in TenantIds, dir \in Directions, bot \in BOOLEAN, at \in Timestamps :
       InsertMessage(t, dir, bot, at)
  \/ \E t \in TenantIds : getCurrentUsage(t)
  \/ gcuStep

SpecGcu == Init /\ [][NextGcu]_vars

\* getCurrentUsage over new documents of every size.
NextStorage ==
  \/ register
  \/ \E t \in TenantIds, processed \in BOOLEAN, size \in {Null} \cup FileSizes :
       InsertDocument(t, processed, size, 0)
  \/ \E t \in TenantIds : getCurrentUsage(t)
  \/ gcuStep

SpecStorage == Init /\ [][NextStorage]_vars

\* getCurrentUsage over new tenants, changing plans and new bot responses.
NextPlan ==
  \/ register
  \/ \E t \in TenantIds, plan \in Plans : SetTenantPlan(t, plan)
  \/ \E t \in TenantIds : InsertMessage(t, "outbound", TRUE, 0)
  \/ \E t \in TenantIds : getCurrentUsage(t)
  \/ gcuStep

SpecPlan == Init /\ [][NextPlan]_vars

\* getCurrentUsage beside recordDailyUsage calls and seeded usage rows.
NextLive ==
  \/ \E dir \in Directions, bot \in BOOLEAN : InsertMessage(1, dir, bot, 0)
  \/ \E d \in TimesOfMonth : SeedUsage(1, normalizedDate(d))
  \/ \E d \in TimesOfMonth : recordDailyUsage(1, 1, d)
  \/ rduStep(1)
  \/ getCurrentUsage(1)
  \/ gcuStep

SpecLive == Init /\ [][NextLive]_vars

\* Optional dates of a getUsageStatistics input.
OptionalTimes == {Null} \cup TimesOfMonth

\* getUsageStatistics and generateUsageReport, one call at a time, over usage
\* rows of two tenants, of any date, written in any order.
NextStats ==
  \/ register
  \/ \E t \in TenantIds, d \in TimesOfMonth :
       gus.pc = "idle" /\ gur.pc = "idle" /\ InsertUsage(t, d, 10, 5, 3)
  \/ \E t \in TenantIds, s \in OptionalTimes, e \in OptionalTimes :
       gur.pc = "idle" /\ getUsageStatistics([tenant_id |-> t, start_date |-> s, end_date |-> e])
  \/ gusDone
  \/ \E t \in TenantIds, s \in TimesOfMonth, e \in TimesOfMonth :
       gus.pc = "idle" /\ generateUsageReport(t, s, e)
  \/ gurDone

SpecStats == Init /\ [][NextStats]_vars

\* generateUsageReport over usage rows of any date and counts of the one
\* tenant, asked for that tenant and for one that does not exist.  The calls
\* are one statement against the store: rows are written between calls.
NextReport ==
  \/ \E t \in TenantIds, d \in TimesOfMonth, sent \in Counts, received \in Counts, ai \in Counts :
       gur.pc = "idle" /\ InsertUsage(t, d, sent, received, ai)
  \/ \E t \in TenantIds, s \in TimesOfMonth, e \in TimesOfMonth : generateUsageReport(t, s, e)
  \/ gurDone

SpecReport == Init /\ [][NextReport]_vars

\* The three read operations, any of them in flight at once and any of them
\* failing, over new tenants, usage rows of two tenants and a new bot response.
NextRead ==
  \/ register
  \/ \E t \in TenantIds : InsertUsage(t, 0, 10, 5, 3)
  \/ InsertMessage(1, "outbound", TRUE, 0)
  \/ \E t \in TenantIds :
       \/ getUsageStatistics([tenant_id |-> t, start_date |-> Null, end_date |-> MaxTimeOfMonth])
       \/ gusThrows([tenant_id |-> t, start_date |-> Null, end_date |-> MaxTimeOfMonth])
  \/ gusDone
  \/ \E t \in TenantIds :
       \/ generateUsageReport(t, 0, MaxTimeOfMonth)
       \/ gurThrows(t, 0, MaxTimeOfMonth)
  \/ gurDone
  \/ \E t \in TenantIds : getCurrentUsage(t)
  \/ gcuStep
  \/ gcuThrows

SpecRead == Init /\ [][NextRead]_vars

\* recordDailyUsage calls that may fail at any statement, one begun after the
\* other is over, over new tenants, a seeded row and new outbound messages.
NextRetry ==
  \/ register
  \/ \E at \in TimesOfMonth : InsertMessage(1, "outbound", FALSE, Timestamp(at))
  \/ \E t \in TenantIds, d \in TimesOfMonth : SeedUsage(t, normalizedDate(d))
  \/ \E c \in Calls, t \in TenantIds, d \in TimesOfMonth :
       /\ \A o \in Calls : rdu[o].pc \in {"idle", "returned", "thrown"}
       /\ recordDailyUsage(c, t, d)
  \/ \E c \in Calls : rduStep(c) \/ rduThrows(c)

SpecRetry == Init /\ [][NextRetry]_vars

\* recordDailyUsage calls of the tenant for two days, one begun after the
\* other is over, over a seeded row of the first day, beside a clock that moves
\* into the second day and new and changing connections.
NextConn ==
  \/ Tick(DayMs)
  \/ SeedUsage(1, 0)
  \/ \E t \in TenantIds : createWhatsappConnection(t)
  \/ \E i \in 1..MaxConns, status \in {"connected", "disconnected"} :
       updateWhatsappConnection(i, status)
  \/ \E c \in Calls, d \in {0, DayMs} :
       /\ \A o \in Calls : rdu[o].pc \in {"idle", "returned", "thrown"}
       /\ recordDailyUsage(c, 1, d)
  \/ \E c \in Calls : rduStep(c)

SpecConn == Init /\ [][NextConn]_vars

\* recordDailyUsage calls for two days, one at a time, for the tenant and for
\* one that does not exist, beside new and changing connections and tenants
\* deactivated and activated; the clock moves into the second day before the
\* first call and while every tenant is active.
NextOff ==
  \/ started = 0 /\ tts.pc = "idle" /\ inactive = {} /\ off = {} /\ Tick(DayMs)
  \/ \E t \in TenantIds : createWhatsappConnection(t)
  \/ \E i \in 1..MaxConns, status \in {"connected", "error"} :
       updateWhatsappConnection(i, status)
  \/ \E t \in TenantIds, isActive \in BOOLEAN : toggleTenantStatus(t, isActive)
  \/ ttsConnections
  \/ ttsTenant
  \/ ttsDone
  \/ \E d \in {0, DayMs} : recordDailyUsage(1, 1, d)
  \/ recordDailyUsage(1, 2, 0)
  \/ rduStep(1)

SpecOff == Init /\ [][NextOff]_vars

\* The four operations for the first tenant, and recordDailyUsage for the
\* second, one call at a time, over a message of either tenant and rows of a
\* second tenant in every table, written between the calls.
Resting == rdu[1].pc = "idle" /\ gcu.pc = "idle" /\ gus.pc = "idle" /\ gur.pc = "idle"
NextIso ==
  \/ Resting /\ register
  \/ Resting /\ SetTenantPlan(2, "premium")
  \/ \E t \in TenantIds : Resting /\ InsertMessage(t, "outbound", TRUE, 0)
  \/ Resting /\ InsertDocument(2, TRUE, 1, 0)
  \/ Resting /\ createWhatsappConnection(2)
  \/ \E i \in 1..MaxConns : Resting /\ updateWhatsappConnection(i, "connected")
  \/ Resting /\ InsertUsage(2, 0, 10, 5, 3)
  \/ /\ Resting
     /\ \/ \E t \in TenantIds : recordDailyUsage(1, t, 0)
        \/ getCurrentUsage(1)
        \/ getUsageStatistics([tenant_id |-> 1, start_date |-> Null, end_date |-> Null])
        \/ generateUsageReport(1, 0, MaxTimeOfMonth)
  \/ rduStep(1)
  \/ gcuStep
  \/ gusDone
  \/ gurDone

SpecIso == Init /\ [][NextIso]_vars

\* recordDailyUsage for the days of the month, one call at a time, for the
\* tenant and for one that does not exist, and generateUsageReport over ranges
\* of those days, over messages of the tenant created at any instant of the month.  The report is one statement against
\* the store: the store changes between reports.
NextTotals ==
  \/ \E dir \in Directions, bot \in BOOLEAN, at \in TimestampsOfMonth :
       gur.pc = "idle" /\ InsertMessage(1, dir, bot, at)
  \/ \E d \in TimesOfMonth : gur.pc = "idle" /\ recordDailyUsage(1, 1, d)
  \/ gur.pc = "idle" /\ recordDailyUsage(1, 2, 0)
  \/ gur.pc = "idle" /\ rduStep(1)
  \/ \E s \in TimesOfMonth, e \in TimesOfMonth : generateUsageReport(1, s, e)
  \/ gurDone

SpecTotals == Init /\ [][NextTotals]_vars

(* ------------------------------- claims -------------------------------- *)
\* The calendar day of an instant, and the first instant of a day.
DayOf(t) == t \div DayMs
Midnight(day) == day * DayMs
Returned(c) == rdu[c].pc = "returned"
KeyOf(c) == <<rdu[c].tenantId, rdu[c].normalizedDate>>
CountFields ==
  {"messages_sent", "messages_received", "ai_requests", "knowledge_base_queries",
   "active_connections"}

\* C1: the usage table never holds two records with the same tenant_id and
\* date, whatever recordDailyUsage calls ran, overlapping ones included.
C1_OneRecordPerTenantDay ==
  \A r1, r2 \in usage :
    (r1.tenant_id = r2.tenant_id /\ r1.date = r2.date) => r1 = r2

\* Two overlapping calls for one tenant and day, given different timestamps,
\* both found no record; one inserted the row and the other was rejected.
C1_Witness ==
  \E c1, c2 \in Calls :
    /\ rdu[c1].pc = "returned" /\ rdu[c2].pc = "thrown"
    /\ KeyOf(c1) = KeyOf(c2) /\ rdu[c1].date # rdu[c2].date
    /\ rdu[c1].existingRecord = 0 /\ rdu[c2].existingRecord = 0
    /\ Cardinality(usage) = 1

\* C2: a call that repeats a settled call (same tenant and day, no activity
\* write since that call began) returns the record the earlier call left,
\* field by field, and that record is still the one row of the day.
C2_IdempotentUpsert ==
  \A c \in Calls :
    (Returned(c) /\ rdu[c].again) =>
      /\ \A f \in CountFields : rdu[c].result[f] = rdu[c].before[f]
      /\ rdu[c].result = rdu[c].before
      /\ KeyOf(c) \in settled =>
           ExistingRecord(rdu[c].tenantId, rdu[c].normalizedDate) = {rdu[c].before}

\* A repeated call returned a record that counts at least one message.
C2_Witness ==
  \E c \in Calls :
    /\ Returned(c) /\ rdu[c].again
    /\ rdu[c].result.messages_sent > 0
    /\ Len(log) = 2 /\ log[1].id = log[2].id

\* C3: an update replaces the five counts of the existing record by the counts
\* the call computed and keeps its id, tenant_id, date and created_at; the
\* updated record is the one row of the day.
C3_UpdateOverwrites ==
  \A c \in Calls :
    (Returned(c) /\ rdu[c].before # NoRow) =>
      LET l == rdu[c]
      IN  /\ l.result.messages_sent = l.messagesSent
          /\ l.result.messages_received = l.messagesReceived
          /\ l.result.ai_requests = l.aiRequestCount
          /\ l.result.knowledge_base_queries = l.kbQueryCount
          /\ l.result.active_connections = l.activeConnectionCount
          /\ l.result.id = l.before.id
          /\ l.result.tenant_id = l.before.tenant_id
          /\ l.result.date = l.before.date
          /\ l.result.created_at = l.before.created_at
          /\ ExistingRecord(l.tenantId, l.normalizedDate) = {l.result}

\* The seeded record (messages_sent 10) was overwritten, after the clock had
\* moved on, by a call that counted one sent message.
C3_Witness ==
  \E c \in Calls :
    /\ Returned(c) /\ rdu[c].before # NoRow
    /\ rdu[c].before.messages_sent = 10
    /\ rdu[c].result.messages_sent = 1
    /\ rdu[c].before.created_at < now

\* Rows of a bag that satisfy P, counted with their multiplicity.
Number(B, P(_)) == BagCardinality([k \in {x \in DOMAIN B : P(x)} |-> B[k]])
\* The timestamp at lies from 00:00:00.000 to 23:59:59.999 of the day of d.
OnDayOf(at, d) ==
  /\ Timestamp(Midnight(DayOf(d))) <= at
  /\ at <= Timestamp(Midnight(DayOf(d)) + DayMs - 1)

\* C4: the record returned by a call that ran against unchanging activity
\* counts the tenant's outbound, inbound and bot-flagged messages created
\* from 00:00:00.000 to 23:59:59.999 of the day of the argument, both ends
\* included, and its processed documents updated in that interval.
C4_CountsOfTheDay ==
  \A c \in Calls :
    (Returned(c) /\ rdu[c].quiet) =>
      LET t == rdu[c].tenantId
          d == rdu[c].date
          Sent(m) == m.tenant_id = t /\ m.direction = "outbound" /\ OnDayOf(m.created_at, d)
          Recv(m) == m.tenant_id = t /\ m.direction = "inbound" /\ OnDayOf(m.created_at, d)
          Bot(m) == m.tenant_id = t /\ m.is_bot_response /\ OnDayOf(m.created_at, d)
          Kb(k) == k.tenant_id = t /\ k.is_processed /\ OnDayOf(k.updated_at, d)
      IN  /\ rdu[c].result.messages_sent = Number(messages, Sent)
          /\ rdu[c].result.messages_received = Number(messages, Recv)
          /\ rdu[c].result.ai_requests = Number(messages, Bot)
          /\ rdu[c].result.knowledge_base_queries = Number(documents, Kb)

\* A bot-flagged outbound message created at 23:59:59.999 of the day was
\* counted by a call given an earlier timestamp of that day.
C4_Witness ==
  \E c \in Calls :
    /\ Returned(c) /\ rdu[c].quiet
    /\ rdu[c].date = rdu[c].normalizedDate
    /\ \E m \in DOMAIN messages :
         /\ m.tenant_id = rdu[c].tenantId /\ m.direction = "outbound" /\ m.is_bot_response
         /\ m.created_at = Timestamp(rdu[c].date + DayMs - 1)
    /\ rdu[c].result.messages_sent = 1
    /\ rdu[c].result.ai_requests = 1
    /\ rdu[c].result.messages_received = 0

\* C5: calls of one tenant return the same record exactly when their
\* timestamps fall on the same calendar day, and the date of the record is
\* midnight of that day.
C5_DayNormalization ==
  /\ \A i, j \in DOMAIN log :
       log[i].tenantId = log[j].tenantId =>
         (DayOf(log[i].date) = DayOf(log[j].date) <=> log[i].id = log[j].id)
  /\ \A c \in Calls :
       Returned(c) => rdu[c].result.date = Midnight(DayOf(rdu[c].date))

\* Two calls with different timestamps of one day returned the same record.
C5_Witness ==
  /\ Len(log) = 2
  /\ log[1].tenantId = log[2].tenantId
  /\ log[1].date # log[2].date
  /\ DayOf(log[1].date) = DayOf(log[2].date)
  /\ log[1].id = log[2].id

\* C6: a getCurrentUsage call that found no tenant row for its id returns no
\* snapshot (it fails with a not-found error instead).
C6_MissingTenantNotFound ==
  gcu.pc = "returned" => gcu.tenant # <<>>

\* C7: when the plan read for the tenant is missing or is none of the four
\* tiers, the snapshot carries the limits of no tier.
C7_PlanLookupFailsClosed ==
  (gcu.pc = "returned" /\ (gcu.tenant = <<>> \/ gcu.tenant[1] \notin Plans)) =>
    \A p \in Plans : gcu.result.plan_limits # planLimits[p]

\* The limits of a plan, as tabulated: messages, AI requests, storage MB.
LimitsRow(messages_, ai, storage) ==
  [max_messages_per_month |-> messages_, max_ai_requests_per_month |-> ai,
   max_storage_mb |-> storage]
LimitsTable(plan) ==
  CASE plan = "free" -> LimitsRow(100, 50, 10)
    [] plan = "basic" -> LimitsRow(1000, 500, 100)
    [] plan = "premium" -> LimitsRow(10000, 5000, 1000)
    [] plan = "enterprise" -> LimitsRow(100000, 50000, 10000)
UsageFields ==
  {"messages_today", "messages_this_month", "ai_requests_today",
   "ai_requests_this_month", "storage_used_mb"}

\* C8: for an existing tenant whose row was not written during the call, the
\* snapshot carries the tabulated limits of the tenant's plan; and when the
\* previous snapshot of the tenant was taken at the same instant with no
\* activity write since, every other field equals that snapshot's.
C8_PlanLimitsOfCurrentPlan ==
  (gcu.pc = "returned" /\ gcu.quiet /\ TenantExists(gcu.tenantId)) =>
    /\ gcu.result.plan_limits = LimitsTable(tenants[gcu.tenantId])
    /\ gcu.prev # NoRow => \A f \in UsageFields : gcu.result[f] = gcu.prev[f]

\* After a snapshot with other limits, the plan became premium and the next
\* snapshot carries 10000 messages per month and the same count of messages.
C8_Witness ==
  /\ gcu.pc = "returned" /\ gcu.quiet
  /\ gcu.prev # NoRow
  /\ gcu.prev.plan_limits # gcu.result.plan_limits
  /\ gcu.result.plan_limits.max_messages_per_month = 10000
  /\ gcu.result.messages_today = 1

RECURSIVE TotalBytes(_)
TotalBytes(S) ==
  IF S = {} THEN 0
  ELSE LET k == CHOOSE x \in S : TRUE
       IN  documents[k] * (IF k.file_size = Null THEN 0 ELSE k.file_size)
             + TotalBytes(S \ {k})

\* C9: storage_used_mb is the least whole number of megabytes (1,048,576
\* bytes) that holds the file sizes of all documents of the tenant, a null
\* size counting as 0: it is 0 exactly when the sizes sum to 0.
C9_StorageCeiling ==
  (gcu.pc = "returned" /\ gcu.quiet) =>
    LET total == TotalBytes({k \in DOMAIN documents : k.tenant_id = gcu.tenantId})
        mb == gcu.result.storage_used_mb
    IN  /\ mb >= 0
        /\ mb * 1048576 >= total
        /\ mb > 0 => (mb - 1) * 1048576 < total
        /\ mb = 0 <=> total = 0

\* One unprocessed document of 1 byte is reported as 1 MB.
C9_Witness ==
  /\ gcu.pc = "returned" /\ gcu.quiet
  /\ \E k \in DOMAIN documents :
       /\ k.tenant_id = gcu.tenantId /\ k.file_size = 1 /\ ~k.is_processed
       /\ BagCardinality(documents) = 1
  /\ gcu.result.storage_used_mb = 1

MonthOf(t) == t \div MonthMs

\* C10: the snapshot of a call that ran against unchanging messages counts the
\* tenant's messages created on the day of the call or later, those created
\* in the month of the call or later, and the bot-flagged ones among each.
C10_CountsSinceStart ==
  (gcu.pc = "returned" /\ gcu.quiet) =>
    LET t == gcu.tenantId
        Today(m) == m.tenant_id = t /\ m.created_at >= Timestamp(Midnight(DayOf(gcu.now)))
        Month(m) == m.tenant_id = t /\ m.created_at >= Timestamp(MonthOf(gcu.now) * MonthMs)
        BotToday(m) == Today(m) /\ m.is_bot_response
        BotMonth(m) == Month(m) /\ m.is_bot_response
    IN  /\ gcu.result.messages_today = Number(messages, Today)
        /\ gcu.result.messages_this_month = Number(messages, Month)
        /\ gcu.result.ai_requests_today = Number(messages, BotToday)
        /\ gcu.result.ai_requests_this_month = Number(messages, BotMonth)

\* A bot-flagged message created at midnight of the first day of the month is
\* counted for the month and not for today by a call on a later day.
C10_Witness ==
  /\ gcu.pc = "returned" /\ gcu.quiet
  /\ gcu.startOfToday > gcu.startOfMonth
  /\ gcu.startOfMonth > 0
  /\ \E m \in DOMAIN messages :
       /\ m.tenant_id = gcu.tenantId /\ m.is_bot_response
       /\ m.created_at = Timestamp(gcu.startOfMonth)
  /\ gcu.result.messages_today = 0
  /\ gcu.result.messages_this_month = 1
  /\ gcu.result.ai_requests_today = 0
  /\ gcu.result.ai_requests_this_month = 1

\* C11: the snapshot does not depend on the usage table: a call made at the
\* same instant as the previous call of the tenant, with no write to tenants,
\* messages or documents in between, returns the snapshot the previous call
\* returned, whatever usage rows were seeded, inserted or updated meanwhile.
C11_LiveOfUsageTable ==
  (gcu.pc = "returned" /\ gcu.quiet /\ gcu.prev # NoRow) => gcu.result = gcu.prev

\* The previous snapshot was taken with no usage row; since then
\* recordDailyUsage recorded today's message, and the snapshot is the same.
C11_Witness ==
  /\ gcu.pc = "returned" /\ gcu.quiet /\ gcu.prev # NoRow
  /\ gcu.prevUsage = {}
  /\ \E r \in usage : r.date = gcu.startOfToday /\ r.messages_sent + r.messages_received = 1
  /\ gcu.result.messages_today = 1

(* Reading the usage table. *)
\* The stored records of tenant t dated from s to e, an absent bound (Null)
\* restricting nothing.
Selected(t, s, e) ==
  {r \in usage : /\ r.tenant_id = t
                 /\ s # Null => r.date >= s
                 /\ e # Null => r.date <= e}
Elements(seq) == {seq[i] : i \in DOMAIN seq}
Entry(r) ==
  [date |-> r.date, messages_sent |-> r.messages_sent,
   messages_received |-> r.messages_received, ai_requests |-> r.ai_requests]
Breakdown == gur.result.daily_breakdown
Summary == gur.result.summary
Reported == Selected(gur.tenantId, gur.startDate, gur.endDate)
DayTotal(r) == r.messages_sent + r.messages_received
RECURSIVE SumOfDayTotals(_)
SumOfDayTotals(S) ==
  IF S = {} THEN 0
  ELSE LET r == CHOOSE x \in S : TRUE IN DayTotal(r) + SumOfDayTotals(S \ {r})
RECURSIVE SumOfAiRequests(_)
SumOfAiRequests(S) ==
  IF S = {} THEN 0
  ELSE LET r == CHOOSE x \in S : TRUE IN r.ai_requests + SumOfAiRequests(S \ {r})

\* C12: getUsageStatistics returns, and generateUsageReport reports on,
\* exactly the stored records of the tenant dated from start_date to end_date,
\* both ends included, an omitted bound restricting nothing; each record once.
C12_InclusiveRange ==
  /\ gus.pc = "returned" =>
        /\ Elements(gus.results) = Selected(gus.tenant_id, gus.start_date, gus.end_date)
        /\ Len(gus.results) = Cardinality(Elements(gus.results))
  /\ gur.pc = "returned" =>
        /\ Elements(Breakdown) = {Entry(r) : r \in Reported}
        /\ Len(Breakdown) = Cardinality(Reported)

\* getUsageStatistics was given the dates of two records of the tenant as
\* start and end and returned both, while a record of another tenant dated
\* in between stayed out.
C12_Witness ==
  /\ gus.pc = "returned"
  /\ gus.start_date # Null /\ gus.end_date # Null /\ gus.start_date < gus.end_date
  /\ Len(gus.results) = 2
  /\ gus.results[1].date = gus.start_date
  /\ gus.results[2].date = gus.end_date
  /\ \E r \in usage : /\ r.tenant_id # gus.tenant_id
                       /\ r.date > gus.start_date /\ r.date < gus.end_date

\* C13: the records getUsageStatistics returns are in ascending date order.
C13_AscendingDates ==
  gus.pc = "returned" =>
    \A i \in 1..(Len(gus.results) - 1) : gus.results[i].date <= gus.results[i + 1].date

\* Three records were returned, the first of them inserted last.
C13_Witness ==
  /\ gus.pc = "returned"
  /\ Len(gus.results) = 3
  /\ gus.results[1].id > gus.results[2].id
  /\ gus.results[1].id > gus.results[3].id

\* C14: when no stored record matches (no record of the tenant, no such
\* tenant, no record in the window), getUsageStatistics returns the empty
\* sequence.
C14_EmptyIsNoError ==
  (gus.pc # "idle" /\ Selected(gus.tenant_id, gus.start_date, gus.end_date) = {}) =>
    gus.pc = "returned" /\ gus.results = <<>>

\* A tenant id that does not exist was asked for, with no window, while
\* records of another tenant are stored.
C14_Witness ==
  /\ gus.pc = "returned"
  /\ ~TenantExists(gus.tenant_id)
  /\ gus.start_date = Null /\ gus.end_date = Null
  /\ usage # {}
  /\ gus.results = <<>>

\* C15: daily_breakdown has one entry per selected record, in ascending date
\* order, with the record's date, messages_sent, messages_received and
\* ai_requests; total_messages is the sum of sent + received over them and
\* total_ai_requests the sum of ai_requests.
C15_BreakdownAndTotals ==
  gur.pc = "returned" =>
    /\ Len(Breakdown) = Cardinality(Reported)
    /\ \A r \in Reported : \E i \in DOMAIN Breakdown : Breakdown[i] = Entry(r)
    /\ \A i \in 1..(Len(Breakdown) - 1) : Breakdown[i].date < Breakdown[i + 1].date
    /\ Summary.total_messages = SumOfDayTotals(Reported)
    /\ Summary.total_ai_requests = SumOfAiRequests(Reported)

\* Three records were reported, with sent and received messages and AI
\* requests among them: 4 messages and 2 AI requests in all.
C15_Witness ==
  /\ gur.pc = "returned"
  /\ Len(Breakdown) = 3
  /\ Breakdown[1].messages_sent = 1 /\ Breakdown[1].messages_received = 1
  /\ Breakdown[2].messages_sent = 0 /\ Breakdown[2].messages_received = 1
  /\ Breakdown[3].messages_sent = 1 /\ Breakdown[3].messages_received = 0
  /\ Summary.total_messages = 4
  /\ Summary.total_ai_requests = 2

\* The greatest day total of the selected records, and the records attaining it.
MaxDayTotal(S) == CHOOSE m \in {DayTotal(r) : r \in S} : \A r \in S : DayTotal(r) <= m
PeakRecords(S) == {r \in S : DayTotal(r) = MaxDayTotal(S)}

\* C16: when records are selected, peak_day_messages is the greatest
\* sent + received among them and peak_day is the date of the earliest record
\* that attains it.
C16_PeakIsEarliestMaximum ==
  (gur.pc = "returned" /\ Reported # {}) =>
    /\ Summary.peak_day_messages = MaxDayTotal(Reported)
    /\ \E r \in PeakRecords(Reported) :
         /\ Summary.peak_day = r.date
         /\ \A q \in PeakRecords(Reported) : r.date <= q.date

\* C17: peak_day is null exactly when no record is selected; otherwise it is
\* the date of a selected record.
C17_PeakDayNullIffNoRecord ==
  gur.pc = "returned" =>
    /\ Summary.peak_day = Null <=> Reported = {}
    /\ Reported # {} => Summary.peak_day \in {r.date : r \in Reported}

\* C18: with n >= 1 records selected, avg_daily_messages is total_messages / n
\* rounded to the nearest integer, a half upwards: avg - 1/2 <= total / n <
\* avg + 1/2, n being the number of records.
C18_AverageRoundsHalfUp ==
  (gur.pc = "returned" /\ Reported # {}) =>
    LET n == Cardinality(Reported)
        total == SumOfDayTotals(Reported)
        avg == Summary.avg_daily_messages
    IN  /\ (2 * avg - 1) * n <= 2 * total
        /\ 2 * total < (2 * avg + 1) * n

\* Two records with 3 messages in all, reported over a window of more
\* instants than records: the average 1.5 is reported as 2.
C18_Witness ==
  /\ gur.pc = "returned"
  /\ Cardinality(Reported) = 2
  /\ SumOfDayTotals(Reported) = 3
  /\ gur.endDate - gur.startDate = MaxTimeOfMonth
  /\ Summary.avg_daily_messages = 2

\* C19: with no record selected the report is all zero: totals 0, average 0,
\* peak_day null, peak_day_messages 0 and an empty daily_breakdown.
C19_EmptyReport ==
  (gur.pc # "idle" /\ Reported = {}) =>
    /\ gur.pc = "returned"
    /\ Summary = [total_messages |-> 0, total_ai_requests |-> 0,
                  avg_daily_messages |-> 0, peak_day |-> Null, peak_day_messages |-> 0]
    /\ Breakdown = <<>>

\* A report was asked for a tenant id that does not exist, over the whole
\* month, while records with messages of another tenant are stored.
C19_Witness ==
  /\ gur.pc = "returned"
  /\ ~TenantExists(gur.tenantId)
  /\ gur.startDate = 0 /\ gur.endDate = MaxTimeOfMonth
  /\ \E r \in usage : DayTotal(r) > 0
  /\ Summary.avg_daily_messages = 0
  /\ Summary.peak_day = Null

\* The usage rows of tenant t dated nd in table U, and all the others.
RowsOfDay(U, t, nd) == {r \in U : r.tenant_id = t /\ r.date = nd}
OtherRows(U, t, nd) == {r \in U : ~(r.tenant_id = t /\ r.date = nd)}

\* C20: no step of a recordDailyUsage call writes to tenants, messages,
\* documents or connections; only the step that returns the record writes to
\* the usage table, and it leaves every row of another tenant or day as it
\* was and the returned record as the one row of the tenant and the
\* normalised day.
C20_OneWrite ==
  [][\A c \in Calls :
       rdu'[c].pc # rdu[c].pc =>
         /\ store' = store
         /\ IF rdu'[c].pc = "returned"
            THEN LET t == rdu[c].tenantId
                     nd == Midnight(DayOf(rdu[c].date))
                 IN  /\ RowsOfDay(usage', t, nd) = {rdu'[c].result}
                     /\ OtherRows(usage', t, nd) = OtherRows(usage, t, nd)
            ELSE usage' = usage]_vars

\* A call updated the record of its day while a message and a record of
\* another day of the tenant are stored.
C20_Witness ==
  \E c \in Calls :
    /\ Returned(c) /\ rdu[c].before # NoRow
    /\ rdu[c].result # rdu[c].before
    /\ messages # EmptyBag
    /\ \E r \in usage : r.tenant_id = rdu[c].tenantId /\ r.date # rdu[c].normalizedDate

\* C21: getUsageStatistics, getCurrentUsage and generateUsageReport perform no
\* writes: every step of any of them, to its return or to its failure and with
\* the other two in flight, leaves every table (tenants, messages, documents,
\* connections, usage records and the sequence of their ids) as it was.
C21_ReadsWriteNothing ==
  [][(gus'.pc # gus.pc \/ gur'.pc # gur.pc \/ gcu'.pc # gcu.pc) =>
       UNCHANGED <<store, usage, nextUsageId, inactive>>]_vars

\* The three calls have run together over a store with usage rows and a
\* message: two have returned and one has failed.
C21_Witness ==
  /\ usage # {} /\ messages # EmptyBag
  /\ gus.pc = "returned" /\ gus.results # <<>>
  /\ gur.pc = "thrown"
  /\ gcu.pc = "returned" /\ ~gcu.quiet

\* The row a call for (t, nd) that found the row `before` leaves when it runs
\* against the present activity with the id sequence at `id`.
RowOf(t, nd, before, id) ==
  LET counts == [messages_sent |-> CountSent(t, nd),
                 messages_received |-> CountReceived(t, nd),
                 ai_requests |-> CountAiRequests(t, nd),
                 knowledge_base_queries |-> CountKbQueries(t, nd),
                 active_connections |-> CountActiveConnections(t)]
  IN  IF before # NoRow
      THEN [f \in DOMAIN before |-> IF f \in DOMAIN counts THEN counts[f] ELSE before[f]]
      ELSE [f \in {"id", "tenant_id", "date", "created_at"} \cup DOMAIN counts |->
              CASE f = "id" -> id
                [] f = "tenant_id" -> t
                [] f = "date" -> nd
                [] f = "created_at" -> now
                [] OTHER -> counts[f]]
ButId(r) == [f \in DOMAIN r \ {"id"} |-> r[f]]
FailingStep(c) == rdu[c].pc # "thrown" /\ rdu'[c].pc = "thrown"

\* C22 as stated: a failed recordDailyUsage call has its failure at the
\* caller and has written nothing, and a later successful call for the same
\* tenant and day on unchanged activity leaves the stored row it would have left
\* had the failed call never been made, the id included: without the failed
\* call the ids of the rows are 1, 2, ... in the order of their inserts.
C22_SameRowAfterFailure ==
  \A c \in Calls :
    (Returned(c) /\ rdu[c].quiet /\ rdu[c].retry) =>
      /\ rdu[c].result \in usage
      /\ rdu[c].result = RowOf(rdu[c].tenantId, rdu[c].normalizedDate, rdu[c].before,
                               Cardinality(usage))

\* C22, amended: a failed recordDailyUsage call has its failure at the caller
\* and has written no row nor part of one, and a later successful call for the
\* same tenant and day on unchanged activity leaves a stored row that equals,
\* in every column but the id, the row it would have left had the failed call
\* never been made.
C22_SameRowButIdAfterFailure ==
  /\ [][\A c \in Calls : FailingStep(c) => (usage' = usage /\ rdu'[c].result = NoRow)]_vars
  /\ [](\A c \in Calls :
          (Returned(c) /\ rdu[c].quiet /\ rdu[c].retry) =>
            /\ rdu[c].result \in usage
            /\ ButId(rdu[c].result) =
                 ButId(RowOf(rdu[c].tenantId, rdu[c].normalizedDate, rdu[c].before,
                             rdu[c].result.id)))

\* A call failed at its insert, which had taken id 1; the call made again for
\* the same tenant and day has inserted the row of the day's one message, with
\* id 2.
C22_Witness ==
  \E c \in Calls :
    /\ Returned(c) /\ rdu[c].quiet /\ rdu[c].retry
    /\ rdu[c].before = NoRow
    /\ rdu[c].result.messages_sent = 1
    /\ rdu[c].result.id > Cardinality(usage)
    /\ \E o \in Calls : rdu[o].pc = "thrown" /\ rdu[o].existingRecord = 0

\* Calls c1 and c2 are for one day of the tenant of the initial store, both
\* found no record of the day, and no one else has written the day's row.
BothSawNoRecord(c1, c2) ==
  /\ c1 # c2
  /\ KeyOf(c1) = KeyOf(c2) /\ rdu[c1].tenantId = 1
  /\ rdu[c1].pc \in {"write", "returned", "thrown"} /\ rdu[c1].existingRecord = 0
  /\ rdu[c2].pc \in {"write", "returned", "thrown"} /\ rdu[c2].existingRecord = 0
  /\ \A r \in ExistingRecord(rdu[c1].tenantId, rdu[c1].normalizedDate) :
       r.id \in {rdu[c1].result.id, rdu[c2].result.id}

\* C23: when two overlapping recordDailyUsage calls for one (tenant, day)
\* without a record have both run the existence check before either inserted,
\* and so both found no record, both attempt the insert: never do both succeed,
\* and once both are over exactly one has returned, the other has failed, and
\* the one stored row of the day is the row the successful call returned.
C23_OneInsertWins ==
  \A c1, c2 \in Calls :
    BothSawNoRecord(c1, c2) =>
      /\ ~(Returned(c1) /\ Returned(c2))
      /\ (rdu[c1].pc # "write" /\ rdu[c2].pc # "write") =>
           \E w \in {c1, c2} :
             /\ Returned(w)
             /\ \A o \in {c1, c2} \ {w} : rdu[o].pc = "thrown"
             /\ ExistingRecord(rdu[w].tenantId, rdu[w].normalizedDate) = {rdu[w].result}

\* Both calls found no record of the day; one has inserted the row, with the
\* count of the day's message, and the other has been rejected.
C23_Witness ==
  \E c1, c2 \in Calls :
    /\ BothSawNoRecord(c1, c2)
    /\ Returned(c1) /\ rdu[c2].pc = "thrown"
    /\ rdu[c1].result.messages_sent = 1
    /\ usage = {rdu[c1].result}

\* Calls c1 and c2 have updated the existing record of one (tenant, day); c2
\* counted a message that c1 had not, c1's update was applied to the row c2's
\* update had left, and that is the row now stored.
LostUpdate(c1, c2) ==
  /\ c1 # c2 /\ KeyOf(c1) = KeyOf(c2)
  /\ Returned(c1) /\ rdu[c1].existingRecord > 0
  /\ Returned(c2) /\ rdu[c2].existingRecord > 0
  /\ rdu[c1].messagesSent < rdu[c2].messagesSent
  /\ rdu[c1].before = rdu[c2].result
  /\ rdu[c1].result \in usage

\* C24: when two overlapping recordDailyUsage calls update the existing record
\* of one (tenant, day), a message of the day is inserted after the first has
\* counted and before the second counts, and the first call's update is applied
\* after the second's, then with both calls finished the stored record holds
\* the first call's older counts: fewer than the second call had written and
\* fewer than the messages present when the last write was made.
C24_LostUpdate ==
  \A c1, c2 \in Calls :
    LostUpdate(c1, c2) =>
      LET t == rdu[c1].tenantId
          nd == rdu[c1].normalizedDate
      IN  /\ ExistingRecord(t, nd) = {rdu[c1].result}
          /\ rdu[c1].result.messages_sent = rdu[c1].messagesSent
          /\ rdu[c1].result.messages_sent < rdu[c2].result.messages_sent
          /\ rdu[c1].result.messages_sent < CountSent(t, nd)

\* The seeded record of the day was updated to one message by the second call
\* and then back to none by the first, with the message still in the store.
C24_Witness ==
  \E c1, c2 \in Calls :
    /\ LostUpdate(c1, c2)
    /\ rdu[c2].result.messages_sent = 1
    /\ rdu[c1].result.messages_sent = 0
    /\ CountSent(rdu[c1].tenantId, rdu[c1].normalizedDate) = 1

\* C25: getCurrentUsage computes each count with its own query.  In every
\* state of the store a tenant's bot responses since an instant are no more
\* than its messages since that instant, and a snapshot taken with no write in
\* between has ai_requests <= messages, today and this month; a snapshot with
\* ai_requests_today > messages_today, true of the store at no instant, is
\* returned only when a message was written between the queries.
C25_SnapshotNotAtomic ==
  /\ \A t \in TenantIds, start \in Times :
       CountAiRequestsSince(t, start) <= CountMessagesSince(t, start)
  /\ (gcu.pc = "returned" /\ gcu.quiet) =>
       /\ gcu.result.ai_requests_today <= gcu.result.messages_today
       /\ gcu.result.ai_requests_this_month <= gcu.result.messages_this_month

\* A bot response dated today was inserted after the messages_today query and
\* before the ai_requests_today query: the snapshot has one AI request today
\* and no message today.
C25_Witness ==
  /\ gcu.pc = "returned" /\ ~gcu.quiet
  /\ gcu.result.messages_today = 0
  /\ gcu.result.ai_requests_today = 1
  /\ CountMessagesSince(gcu.tenantId, gcu.startOfToday) = 1

\* The tenant's connections whose status is connected in this state.
ConnectedNow(t) ==
  {i \in DOMAIN connections : connections[i] = [tenant_id |-> t, connection_status |-> "connected"]}

\* C26: active_connections is a snapshot of the present: a call that ran with
\* no connection changing stores, whatever its day, the number of the tenant's
\* connections that are connected now, so two such calls for different days
\* store the same number, and a call for a past day overwrites the number that
\* day's record held.
C26_ActiveConnectionsOfNow ==
  /\ \A c \in Calls :
       (Returned(c) /\ rdu[c].quiet) =>
         /\ rdu[c].result \in usage
         /\ rdu[c].result.active_connections = Cardinality(ConnectedNow(rdu[c].tenantId))
  /\ \A c1, c2 \in Calls :
       (Returned(c1) /\ rdu[c1].quiet /\ Returned(c2) /\ rdu[c2].quiet
        /\ rdu[c1].tenantId = rdu[c2].tenantId) =>
         rdu[c1].result.active_connections = rdu[c2].result.active_connections

\* On the second day, after the tenant's connection was disconnected, the first
\* day is aggregated again and then the second: the first day's record, which
\* held one active connection, now holds none, as does the second day's.
C26_Witness ==
  \E c1, c2 \in Calls :
    /\ Returned(c1) /\ rdu[c1].quiet /\ Returned(c2) /\ rdu[c2].quiet
    /\ rdu[c1].normalizedDate = 0 /\ rdu[c2].normalizedDate = DayMs /\ now >= DayMs
    /\ rdu[c1].before # NoRow /\ rdu[c1].before.active_connections = 1
    /\ rdu[c1].result.active_connections = 0
    /\ rdu[c2].result.active_connections = 0

\* The rows of tenant t: its tenant row, messages, documents, connections and
\* usage records.
OwnRows(t) ==
  <<IF TenantExists(t) THEN <<tenants[t]>> ELSE <<>>,
    [m \in {x \in DOMAIN messages : x.tenant_id = t} |-> messages[m]],
    [k \in {x \in DOMAIN documents : x.tenant_id = t} |-> documents[k]],
    {<<i, connections[i]>> : i \in {j \in DOMAIN connections : connections[j].tenant_id = t}},
    {r \in usage : r.tenant_id = t}>>

\* What the queries of the four operations yield for tenant t in this state,
\* for the days of the month and the ranges between their first and last instant.
QueriesOf(t) ==
  <<[d \in TimesOfMonth |->
       <<CountSent(t, normalizedDate(d)), CountReceived(t, normalizedDate(d)),
         CountAiRequests(t, normalizedDate(d)), CountKbQueries(t, normalizedDate(d)),
         CountActiveConnections(t), ExistingRecord(t, normalizedDate(d))>>],
    [d \in TimesOfMonth |->
       <<CountMessagesSince(t, d), CountAiRequestsSince(t, d)>>],
    <<IF TenantExists(t) THEN <<tenants[t]>> ELSE <<>>, storageUsedMb(totalSizeBytes(t))>>,
    [se \in {Null, 0} \X {Null, MaxTimeOfMonth} |->
       orderByAscDate({r \in usage :
                         conditions(r, [tenant_id |-> t, start_date |-> se[1],
                                        end_date |-> se[2]])})],
    [se \in {0} \X {0, MaxTimeOfMonth} |-> usageStats(t, se[1], se[2])]>>

DaysOfRange == {d \in 0..(MonthDays - 1) : gur.startDate <= Midnight(d) /\ Midnight(d) <= gur.endDate}
DayOfTimestamp(at) == at \div (DayMs * UsPerMs)

\* C28: every message is counted in the record of exactly one calendar day:
\* when recordDailyUsage has run for every day of a range after all of the
\* tenant's activity was written, generateUsageReport over the range returns as
\* total_messages the number of the tenant's messages created on a day of the
\* range, and as total_ai_requests the number of those that are bot-flagged.
C28_TotalsOfTheRange ==
  (/\ gur.pc = "returned"
   /\ DaysOfRange # {}
   /\ \A d \in DaysOfRange : <<gur.tenantId, Midnight(d)>> \in settled) =>
    LET InRange(m) == m.tenant_id = gur.tenantId /\ DayOfTimestamp(m.created_at) \in DaysOfRange
        BotInRange(m) == InRange(m) /\ m.is_bot_response
    IN  /\ Summary.total_messages = Number(messages, InRange)
        /\ Summary.total_ai_requests = Number(messages, BotInRange)

\* The records of tenant t that are dated midnight of their day, as
\* recordDailyUsage dates them.
MidnightRecords(t) == {r \in usage : r.tenant_id = t /\ r.date = Midnight(DayOf(r.date))}

\* C29: the bounds of the range are compared with the stored date as full
\* timestamps, not as days: getUsageStatistics and generateUsageReport leave
\* out the record of day D whenever start_date is later than 00:00:00.000 of
\* D, be it on day D itself, and, the start not excluding it, they include it
\* for every end_date at or after midnight of D.
C29_BoundsAreTimestamps ==
  /\ gus.pc = "returned" =>
       \A r \in MidnightRecords(gus.tenant_id) :
         /\ (gus.start_date # Null /\ gus.start_date > r.date) => r \notin Elements(gus.results)
         /\ ((gus.start_date = Null \/ gus.start_date <= r.date)
              /\ gus.end_date # Null /\ gus.end_date >= r.date) => r \in Elements(gus.results)
  /\ gur.pc = "returned" =>
       \A r \in MidnightRecords(gur.tenantId) :
         /\ gur.startDate > r.date => Entry(r) \notin Elements(Breakdown)
         /\ (gur.startDate <= r.date /\ gur.endDate >= r.date) => Entry(r) \in Elements(Breakdown)

\* getUsageStatistics was asked for the first day from 23:59:59.999 on and
\* returned nothing, the tenant's record of that day being dated midnight.
C29_Witness ==
  /\ gus.pc = "returned"
  /\ gus.start_date # Null /\ gus.start_date > 0 /\ DayOf(gus.start_date) = 0
  /\ \E r \in MidnightRecords(gus.tenant_id) : r.date = 0
  /\ gus.results = <<>>

====
